---- MODULE Spec2Model ----
(***************************************************************************)
(* Model of text_sum_pydanticai.py: sentence-aware chunking of a text,     *)
(* per-chunk summarisation by a language model with bounded retry,         *)
(* sequential orchestration over the chunks, and the final merge.          *)
(*                                                                         *)
(* Strings are modelled as sequences.  A text is the sequence of its word  *)
(* tokens; the token at position k is k, or -k when it ends a sentence, so *)
(* that every token of a text is distinct and loss, duplication and        *)
(* reordering are visible.                                                 *)
(* A model response is a sequence of response tokens (braces, prose and    *)
(* JSON members).  A report is a sequence of lines.                        *)
(***************************************************************************)
EXTENDS Integers, Sequences, FiniteSets, TLC

VARIABLES
    pc,             \* position of the single thread of control
    full_text,      \* main: the loaded document
    max_words,      \* chunk_text: the max_words argument
    chunks,         \* main: the result of chunk_text
    i,              \* summarize_chunks: index of the chunk being processed
    all_summaries,  \* summarize_chunks: the records collected so far
    prompt,         \* run_summary: the prompt of the current chunk
    attempt,        \* run_summary: loop variable of the retry loop (0-based)
    result,         \* run_summary: what the last agent.run call produced
    retval,         \* run_summary: returned value, <<>> for None, <<r>> for a record
    report,         \* main: the string format_final_output returned
    calls,          \* history: agent.run invocations made for the current chunk
    started,        \* history: number of run_summary calls made so far
    resolved,       \* history: number of run_summary calls that have returned
    kinds,          \* history: what each attempt for the current chunk ran into
    origin          \* history: for each collected record, the chunk it came from

vars == <<pc, full_text, max_words, chunks, i, all_summaries, prompt, attempt,
          result, retval, report, calls, started, resolved, kinds, origin>>

(***************************************************************************)
(* Bounds of the model.                                                    *)
(***************************************************************************)
\* longest text, in word tokens, given to chunk_text on its own
MaxTextWords == 6
\* largest max_words given to chunk_text on its own
MaxWordsArg == 4
\* most sentences of a document of a whole run
MaxRunSentences == 2
\* most tokens around the JSON object of a model response, both sides together
MaxWrapLen == 1
\* most summaries given to format_final_output on its own
MaxSummaries == 2
\* most action items, over all summaries, given to format_final_output on its own
MaxMergeItems == 3

(***************************************************************************)
(* Sequence helpers.                                                       *)
(***************************************************************************)
RECURSIVE Flatten(_)
Flatten(seqs) ==
    IF seqs = <<>> THEN <<>> ELSE Head(seqs) \o Flatten(Tail(seqs))

SeqsUpTo(S, n) == UNION { [1..k -> S] : k \in 0..n }

(***************************************************************************)
(* Tokenizer adapter (nltk).  A text is its sequence of word tokens, a     *)
(* negative token ending a sentence; a trailing run of tokens without a    *)
(* terminator is a sentence too.                                           *)
(***************************************************************************)
EndsSentence(token) == token < 0

sent_tokenize(text) ==
    LET ends == { k \in 1..Len(text) : EndsSentence(text[k]) \/ k = Len(text) }
        EndOf(j) == CHOOSE e \in ends : Cardinality({ x \in ends : x <= e }) = j
        StartOf(j) == IF j = 1 THEN 1 ELSE EndOf(j - 1) + 1
    IN  [ j \in 1..Cardinality(ends) |-> SubSeq(text, StartOf(j), EndOf(j)) ]

word_tokenize(sentence) ==
    [ k \in 1..Len(sentence) |->
        IF EndsSentence(sentence[k]) THEN -sentence[k] ELSE sentence[k] ]

(***************************************************************************)
(* chunk_text                                                              *)
(***************************************************************************)
\* " ".join(current_chunk): the sentences one after the other
JoinSentences(current_chunk) == Flatten(current_chunk)

\* line 35, with the length of the accumulator never added to the sentence's
FitsIgnoringSentence(current_length, n, maxw) == current_length <= maxw

\* line 35 with < in place of <=
FitsStrictly(current_length, n, maxw) == current_length + n < maxw

\* line 35: the sentence still fits the accumulator
Fits(current_length, n, maxw) == current_length + n <= maxw

\* lines 42-43 left out: the last accumulator is never flushed
FinalFlushDropped(chunks_, current_chunk) == chunks_

\* lines 42-43: flush what is left in the accumulator
FinalFlush(chunks_, current_chunk) ==
    IF current_chunk # <<>>
    THEN Append(chunks_, JoinSentences(current_chunk))
    ELSE chunks_

\* line 41 resetting the running count to zero instead of the sentence's count
RestartLengthZero(n) == 0

\* line 41: the running count restarts at the sentence's word count
RestartLength(n) == n

\* lines 33-41: the loop over the sentences, from sentence k on
RECURSIVE ChunkLoop(_, _, _, _, _, _)
ChunkLoop(sentences, k, chunks_, current_chunk, current_length, maxw) ==
    IF k > Len(sentences)
    THEN [chunks |-> chunks_, current_chunk |-> current_chunk]
    ELSE LET sentence == sentences[k]
             words == word_tokenize(sentence)
         IN  IF Fits(current_length, Len(words), maxw)
             THEN ChunkLoop(sentences, k + 1, chunks_,
                            Append(current_chunk, sentence),
                            current_length + Len(words), maxw)
             ELSE ChunkLoop(sentences, k + 1,
                            Append(chunks_, JoinSentences(current_chunk)),
                            <<sentence>>, RestartLength(Len(words)), maxw)

chunk_text(text, maxw) ==
    LET sentences == sent_tokenize(text)
        loop == ChunkLoop(sentences, 1, <<>>, <<>>, 0, maxw)
    IN  FinalFlush(loop.chunks, loop.current_chunk)

\* the default of the max_words parameter
DefaultMaxWords == 200

(***************************************************************************)
(* JSON values and model responses.                                        *)
(* A JSON value is a string (a sequence of characters), null, or a list of *)
(* strings.  A response text is a sequence of tokens: "{", "}", a piece of *)
(* prose "p", or one member "key": value of a JSON object.                 *)
(***************************************************************************)
Str(chars) == [t |-> "str", s |-> chars, l |-> <<>>]
Null == [t |-> "null", s |-> <<>>, l |-> <<>>]
List(items) == [t |-> "list", s |-> <<>>, l |-> items]

LB == [k |-> "{", v |-> Null]
RB == [k |-> "}", v |-> Null]
Prose == [k |-> "p", v |-> Null]
Member(key, value) == [k |-> key, v |-> value]

IsMember(tok) == tok.k \notin {"{", "}", "p"}

\* line 90 with rfind in place of find: the index of the last "{"
rfind_lbrace(text) ==
    LET hits == { k \in 1..Len(text) : text[k] = LB }
    IN  IF hits = {} THEN -1
        ELSE (CHOOSE k \in hits : \A x \in hits : k >= x) - 1

\* str.find('{'): 0-based index of the first "{", -1 when there is none
find_lbrace(text) ==
    LET hits == { k \in 1..Len(text) : text[k] = LB }
    IN  IF hits = {} THEN -1
        ELSE (CHOOSE k \in hits : \A x \in hits : k <= x) - 1

\* str.rfind('}'): 0-based index of the last "}", -1 when there is none
rfind_rbrace(text) ==
    LET hits == { k \in 1..Len(text) : text[k] = RB }
    IN  IF hits = {} THEN -1
        ELSE (CHOOSE k \in hits : \A x \in hits : k >= x) - 1

\* text[a:b] for 0 <= a and 0 <= b
Slice(text, a, b) == SubSeq(text, a + 1, IF b <= Len(text) THEN b ELSE Len(text))

\* json.loads: one object, "{" members "}"; a repeated key keeps its last value
json_loads(json_str) ==
    LET n == Len(json_str)
        wellFormed == /\ n >= 2
                      /\ json_str[1] = LB
                      /\ json_str[n] = RB
                      /\ \A k \in 2..(n - 1) : IsMember(json_str[k])
        keys == { json_str[k].k : k \in 2..(n - 1) }
        LastOf(key) == CHOOSE k \in 2..(n - 1) :
                          /\ json_str[k].k = key
                          /\ \A x \in 2..(n - 1) : json_str[x].k = key => x <= k
    IN  IF wellFormed
        THEN [ok |-> TRUE, data |-> [key \in keys |-> json_str[LastOf(key)].v]]
        ELSE [ok |-> FALSE, data |-> <<>>]

RequiredKeys == <<"heading", "main_point", "action_items">>

\* line 99 checking the first two keys only
HasRequiredKeysButLast(json_data) ==
    \A n \in 1..2 : RequiredKeys[n] \in DOMAIN json_data

\* line 99: all(key in json_data for key in [...])
HasRequiredKeys(json_data) ==
    \A n \in 1..Len(RequiredKeys) : RequiredKeys[n] \in DOMAIN json_data

\* class SummaryOutput validating nothing: any value is taken for any field
FieldsAlwaysValid(json_data) == TRUE

\* class SummaryOutput: the field types pydantic validates on construction
FieldsValid(json_data) ==
    /\ json_data["heading"].t = "str"
    /\ json_data["main_point"].t = "str"
    /\ json_data["action_items"].t = "list"

\* SummaryOutput(**json_data), for json_data that passed validation
SummaryOutput(json_data) ==
    [heading |-> json_data["heading"].s,
     main_point |-> json_data["main_point"].s,
     action_items |-> json_data["action_items"].l]

(***************************************************************************)
(* What agent.run can produce: an exception, a result that is falsy or has *)
(* no output attribute, or a result with an output text.                   *)
(***************************************************************************)
NoResult == [kind |-> "none", output |-> <<>>]
Raised == [kind |-> "raise", output |-> <<>>]
NoOutput == [kind |-> "no_output", output |-> <<>>]
Output(text) == [kind |-> "output", output |-> text]

\* the strings and lists the modelled responses carry
SomeHeading == <<"T">>
SomePoint == <<"M">>
SomeItems == << <<"U", "s", "e", ".">>, <<"u", "s", "e">> >>

HeadingMembers == { <<>>, <<Member("heading", Str(SomeHeading))>>,
                    <<Member("heading", Str(<<>>))>>, <<Member("heading", Null)>> }
PointMembers == { <<>>, <<Member("main_point", Str(SomePoint))>> }
ItemsMembers == { <<>>, <<Member("action_items", List(SomeItems))>>,
                  <<Member("action_items", Null)>> }

Objects == { <<LB>> \o h \o m \o a \o <<RB>> :
             h \in HeadingMembers, m \in PointMembers, a \in ItemsMembers }
Wraps == SeqsUpTo({Prose, LB, RB}, MaxWrapLen)
WrappedIn(pre, post) == { pre \o mid \o post : mid \in Objects \cup {<<>>} }
Responses ==
    UNION { WrappedIn(w[1], w[2]) :
            w \in { v \in Wraps \X Wraps : Len(v[1]) + Len(v[2]) <= MaxWrapLen } }

(***************************************************************************)
(* build_prompt and run_summary                                            *)
(***************************************************************************)
build_prompt(chunk) ==
    [instructions |-> "summarize in strict JSON", input_text |-> chunk,
     format |-> RequiredKeys]

\* line 82 with one attempt more
max_retries_three == 2 + 1

max_retries == 2

\* the ways one pass of the retry loop's body can end
Returned(record) == [path |-> "return", value |-> <<record>>]
\* lines 104-107 giving up at once: an exception ends run_summary with None
ExceptedEndsLoop == [path |-> "return", value |-> <<>>]
Excepted == [path |-> "except", value |-> <<>>]
FellThrough == [path |-> "fall_through", value |-> <<>>]
TookElif == [path |-> "elif", value |-> <<>>]

\* lines 99-100 with a record built from whatever keys the data has
ValidateAndBuildLenient(json_data) ==
    IF HasRequiredKeysButLast(json_data)
    THEN Returned([heading |-> json_data["heading"].s,
                   main_point |-> json_data["main_point"].s,
                   action_items |-> <<>>])
    ELSE FellThrough

\* lines 99-100 with the return left out: the record is built and dropped
ValidateAndDrop(json_data) ==
    IF HasRequiredKeys(json_data)
    THEN IF FieldsValid(json_data) THEN FellThrough ELSE Excepted
    ELSE FellThrough

\* lines 99-100: the key check, then the record or pydantic's ValidationError
ValidateAndBuild(json_data) ==
    IF HasRequiredKeys(json_data)
    THEN IF FieldsValid(json_data)
         THEN Returned(SummaryOutput(json_data))
         ELSE Excepted
    ELSE FellThrough

\* lines 86-103: the body of the try block, given what agent.run produced
AttemptBody(res) ==
    IF res.kind = "raise" THEN Excepted
    ELSE IF res.kind = "output"
    THEN LET response_text == res.output
             json_start == find_lbrace(response_text)
             json_end == rfind_rbrace(response_text) + 1
         IN  IF json_start = -1 \/ json_end = 0
             THEN Excepted
             ELSE LET parsed == json_loads(Slice(response_text, json_start, json_end))
                  IN  IF parsed.ok THEN ValidateAndBuild(parsed.data) ELSE Excepted
    ELSE TookElif

(***************************************************************************)
(* format_final_output                                                     *)
(***************************************************************************)
Uppers == <<"A", "B", "C", "D", "E", "F", "G", "H", "I", "J", "K", "L", "M",
            "N", "O", "P", "Q", "R", "S", "T", "U", "V", "W", "X", "Y", "Z">>
Lowers == <<"a", "b", "c", "d", "e", "f", "g", "h", "i", "j", "k", "l", "m",
            "n", "o", "p", "q", "r", "s", "t", "u", "v", "w", "x", "y", "z">>
Digits == {"0", "1", "2", "3", "4", "5", "6", "7", "8", "9"}
Spaces == {" ", "\t", "\n"}

\* str.lower() on one character
LowerChar(c) ==
    IF \E k \in 1..Len(Uppers) : Uppers[k] = c
    THEN Lowers[CHOOSE k \in 1..Len(Uppers) : Uppers[k] = c]
    ELSE c

\* \w and \s of the regular expression
IsWordChar(c) ==
    \/ \E k \in 1..Len(Lowers) : Lowers[k] = c \/ Uppers[k] = c
    \/ c \in Digits
    \/ c = "_"
IsSpaceChar(c) == c \in Spaces

\* str.strip()
Strip(str) ==
    LET kept == { k \in 1..Len(str) : ~IsSpaceChar(str[k]) }
    IN  IF kept = {} THEN <<>>
        ELSE SubSeq(str, CHOOSE k \in kept : \A x \in kept : k <= x,
                         CHOOSE k \in kept : \A x \in kept : k >= x)

\* line 153: re.sub(r'[^\w\s]', '', item.lower()).strip()
Normalize(item) ==
    LET lowered == [k \in 1..Len(item) |-> LowerChar(item[k])]
    IN  Strip(SelectSeq(lowered, LAMBDA c : IsWordChar(c) \/ IsSpaceChar(c)))

Line(kind, num, text) == [kind |-> kind, num |-> num, text |-> text]

NoSummariesReport == << Line("no_valid_summaries", 0, <<>>) >>

\* lines 140-141 walking the action items from the last one
DetailedBlockItemsReversed(n, summary) ==
    << Line("chunk_heading", n, summary.heading),
       Line("main_point", 0, summary.main_point),
       Line("action_items_label", 0, <<>>) >>
    \o [j \in 1..Len(summary.action_items) |->
           Line("item", j, summary.action_items[Len(summary.action_items) + 1 - j])]
    \o << Line("blank", 0, <<>>) >>

\* lines 137-142: the block of the n-th summary
DetailedBlock(n, summary) ==
    << Line("chunk_heading", n, summary.heading),
       Line("main_point", 0, summary.main_point),
       Line("action_items_label", 0, <<>>) >>
    \o [j \in 1..Len(summary.action_items) |->
           Line("item", j, summary.action_items[j])]
    \o << Line("blank", 0, <<>>) >>

\* lines 150-157 without the test of line 154: every item gets an entry
RECURSIVE ConsolidateAll(_, _, _, _, _)
ConsolidateAll(items, k, seen_actions, action_counter, action_mapping) ==
    IF k > Len(items) THEN action_mapping
    ELSE ConsolidateAll(items, k + 1, seen_actions, action_counter + 1,
                        action_mapping \cup {<<action_counter, items[k]>>})

\* lines 150-157: the loop over all action items, from item k on
RECURSIVE Consolidate(_, _, _, _, _)
Consolidate(items, k, seen_actions, action_counter, action_mapping) ==
    IF k > Len(items) THEN action_mapping
    ELSE LET normalized == Normalize(items[k])
         IN  IF normalized \notin seen_actions
             THEN Consolidate(items, k + 1, seen_actions \cup {normalized},
                              action_counter + 1,
                              action_mapping \cup {<<action_counter, items[k]>>})
             ELSE Consolidate(items, k + 1, seen_actions, action_counter,
                              action_mapping)

\* line 159 emitting the pairs by descending key
SortedItemsDescending(action_mapping) ==
    LET Rank(pair) == Cardinality({ q \in action_mapping : q[1] >= pair[1] })
    IN  [n \in 1..Cardinality(action_mapping) |->
            CHOOSE pair \in action_mapping : Rank(pair) = n]

\* sorted(action_mapping.items()): the pairs by ascending key
SortedItems(action_mapping) ==
    LET Rank(pair) == Cardinality({ q \in action_mapping : q[1] <= pair[1] })
    IN  [n \in 1..Cardinality(action_mapping) |->
            CHOOSE pair \in action_mapping : Rank(pair) = n]

\* lines 134-162: the report of a sequence of summaries
FormatSummaries(summaries) ==
    LET detailed_output ==
            << Line("detailed_title", 0, <<>>), Line("blank", 0, <<>>) >>
            \o Flatten([n \in 1..Len(summaries) |-> DetailedBlock(n, summaries[n])])
        all_items == Flatten([n \in 1..Len(summaries) |-> summaries[n].action_items])
        action_mapping == Consolidate(all_items, 1, {}, 1, {})
        sorted_items == SortedItems(action_mapping)
        consolidated_output ==
            << Line("consolidated_title", 0, <<>>) >>
            \o [n \in 1..Len(sorted_items) |->
                   Line("entry", sorted_items[n][1], sorted_items[n][2])]
    IN  detailed_output \o << Line("blank", 0, <<>>) >> \o consolidated_output

\* lines 131-132 left out: an empty input is formatted like any other
FormatWithoutEmptyCheck(summaries) == FormatSummaries(summaries)

format_final_output(summaries) ==
    IF summaries = <<>> THEN NoSummariesReport ELSE FormatSummaries(summaries)

(***************************************************************************)
(* Inputs.                                                                 *)
(***************************************************************************)
\* the texts of n word tokens: every way of ending sentences in them
TextsOfLen(n) ==
    { [k \in 1..n |-> IF f[k] THEN -k ELSE k] : f \in [1..n -> BOOLEAN] }
Texts == UNION { TextsOfLen(n) : n \in 0..MaxTextWords }

RECURSIVE SumTo(_, _)
SumTo(lens, k) == IF k = 0 THEN 0 ELSE lens[k] + SumTo(lens, k - 1)

\* the text whose sentences have the given word counts
TextOfSentences(lens) ==
    LET ends == { SumTo(lens, k) : k \in 1..Len(lens) }
    IN  [k \in 1..SumTo(lens, Len(lens)) |-> IF k \in ends THEN -k ELSE k]

\* documents of a whole run: short sentences and sentences over the default
RunSentenceLens == {1, DefaultMaxWords + 1}
RunTexts == { TextOfSentences(lens) : lens \in SeqsUpTo(RunSentenceLens, MaxRunSentences) }

\* summaries given to format_final_output on its own: action items that
\* differ in case, punctuation and surrounding space, or in their words
ItemPool == { <<"U", "s", "e", ".">>, <<"u", "s", "e">>,
              <<"G", "o">>, <<" ", "g", "o", "!">> }
HeadingPool == { SomeHeading, <<"H">> }
ItemCounts ==
    { lens \in SeqsUpTo(0..MaxMergeItems, MaxSummaries) :
        SumTo(lens, Len(lens)) <= MaxMergeItems }
SummariesOf(lens, headings, items) ==
    [n \in 1..Len(lens) |->
        [heading |-> headings[n],
         main_point |-> SomePoint,
         action_items |-> SubSeq(items, SumTo(lens, n - 1) + 1, SumTo(lens, n))]]
MergeInputs ==
    UNION { { SummariesOf(lens, headings, items) :
                headings \in [1..Len(lens) -> HeadingPool],
                items \in [1..SumTo(lens, Len(lens)) -> ItemPool] } :
            lens \in ItemCounts }

(***************************************************************************)
(* The run: main, summarize_chunks and run_summary.                        *)
(***************************************************************************)
Locals ==
    /\ chunks = <<>>
    /\ i = 0
    /\ all_summaries = <<>>
    /\ prompt = build_prompt(<<>>)
    /\ attempt = 0
    /\ result = NoResult
    /\ retval = <<>>
    /\ report = <<>>
    /\ calls = 0
    /\ started = 0
    /\ resolved = 0
    /\ kinds = <<>>
    /\ origin = <<>>

\* main, after the document was read
Init ==
    /\ pc = "chunk_text"
    /\ full_text \in RunTexts
    /\ max_words = DefaultMaxWords
    /\ Locals

\* chunk_text called on its own, with any max_words
InitChunk ==
    /\ pc = "chunk_text"
    /\ full_text \in Texts
    /\ max_words \in 0..MaxWordsArg
    /\ Locals

\* format_final_output called on its own, with any summaries
InitMerge ==
    /\ pc = "summarized"
    /\ full_text = <<>>
    /\ max_words = DefaultMaxWords
    /\ chunks = <<>>
    /\ i = 0
    /\ all_summaries \in MergeInputs
    /\ prompt = build_prompt(<<>>)
    /\ attempt = 0
    /\ result = NoResult
    /\ retval = <<>>
    /\ report = <<>>
    /\ calls = 0
    /\ started = 0
    /\ resolved = 0
    /\ kinds = <<>>
    /\ origin = <<>>

\* line 181: chunks = chunk_text(full_text)
CallChunkText ==
    /\ pc = "chunk_text"
    /\ chunks' = chunk_text(full_text, max_words)
    /\ pc' = "chunked"
    /\ UNCHANGED <<full_text, max_words, i, all_summaries, prompt, attempt, result,
                   retval, report, calls, started, resolved, kinds, origin>>

\* lines 184, 112: summarize_chunks is entered
EnterSummarizeChunks ==
    /\ pc = "chunked"
    /\ all_summaries' = <<>>
    /\ i' = 0
    /\ pc' = "loop"
    /\ UNCHANGED <<full_text, max_words, chunks, prompt, attempt, result, retval,
                   report, calls, started, resolved, kinds, origin>>

\* line 113 walking the chunks from the last one
ChunkAtFromEnd(chunks_, k) == chunks_[Len(chunks_) + 1 - k]

\* line 113: the k-th chunk of enumerate(chunks)
ChunkAt(chunks_, k) == chunks_[k]

\* lines 113-116, 79-85: the next chunk is taken and run_summary runs up to
\* its first agent.run
CallRunSummary ==
    /\ pc = "loop"
    /\ i < Len(chunks)
    /\ i' = i + 1
    /\ prompt' = build_prompt(ChunkAt(chunks, i + 1))
    /\ attempt' = 0
    /\ result' = NoResult
    /\ retval' = <<>>
    /\ calls' = 0
    /\ kinds' = <<>>
    /\ started' = started + 1
    /\ pc' = "await"
    /\ UNCHANGED <<full_text, max_words, chunks, all_summaries, report, resolved, origin>>

\* what an attempt ran into, read off what agent.run produced
HasBraces(text) ==
    /\ \E k \in 1..Len(text) : text[k] = LB
    /\ \E k \in 1..Len(text) : text[k] = RB
BetweenBraces(text) == Slice(text, find_lbrace(text), rfind_rbrace(text) + 1)
KindOf(res) ==
    IF res.kind = "raise" THEN "invocation_error"
    ELSE IF res.kind # "output" THEN "no_output"
    ELSE IF ~HasBraces(res.output) THEN "no_braces"
    ELSE LET parsed == json_loads(BetweenBraces(res.output))
         IN  IF ~parsed.ok THEN "json_error"
             ELSE IF \E n \in 1..3 : RequiredKeys[n] \notin DOMAIN parsed.data
             THEN "missing_key"
             ELSE IF \/ parsed.data["heading"].t # "str"
                     \/ parsed.data["main_point"].t # "str"
                     \/ parsed.data["action_items"].t # "list"
             THEN "invalid_field"
             ELSE "conformant"

\* line 83 looping over one attempt more than max_retries
HasNextAttemptOfThree(a) == a + 1 < max_retries + 1

\* line 83: range(max_retries) has a value after attempt
HasNextAttempt(a) == a + 1 < max_retries

\* lines 85-108: agent.run ends, the rest of the loop body runs, and either
\* the function returns or the next agent.run is awaited.  The result of an
\* attempt that did not return is never read again.
AgentRun(res) ==
    /\ pc = "await"
    /\ calls' = calls + 1
    /\ kinds' = Append(kinds, KindOf(res))
    /\ LET body == AttemptBody(res)
       IN  IF body.path = "return"
           THEN /\ retval' = body.value
                /\ result' = res
                /\ attempt' = attempt
                /\ resolved' = resolved + 1
                /\ pc' = "returned"
           ELSE IF HasNextAttempt(attempt)
           THEN /\ retval' = retval
                /\ result' = NoResult
                /\ attempt' = attempt + 1
                /\ resolved' = resolved
                /\ pc' = "await"
           ELSE /\ retval' = <<>>
                /\ result' = res
                /\ attempt' = attempt
                /\ resolved' = resolved + 1
                /\ pc' = "returned"
    /\ UNCHANGED <<full_text, max_words, chunks, i, all_summaries, prompt, report,
                   started, origin>>

AgentRaises == AgentRun(Raised)
AgentGivesNoOutput == AgentRun(NoOutput)
AgentResponds == \E text \in Responses : AgentRun(Output(text))

\* line 123 putting the new record first
WithSummaryFirst(summaries, summary) == <<summary>> \o summaries

\* line 123: all_summaries.append(summary)
WithSummary(summaries, summary) == Append(summaries, summary)

\* lines 116-125 without the try and the None check: a chunk without a
\* summary ends the run with an exception
CollectOrAbort ==
    /\ pc = "returned"
    /\ IF retval # <<>>
       THEN /\ all_summaries' = WithSummary(all_summaries, retval[1])
            /\ origin' = Append(origin, i)
            /\ pc' = "loop"
       ELSE /\ UNCHANGED <<all_summaries, origin>>
            /\ pc' = "aborted"
    /\ prompt' = build_prompt(<<>>)
    /\ attempt' = 0
    /\ result' = NoResult
    /\ retval' = <<>>
    /\ calls' = 0
    /\ kinds' = <<>>
    /\ UNCHANGED <<full_text, max_words, chunks, i, report, started, resolved>>

\* lines 116-127: run_summary has returned and its frame is gone; the record
\* is appended or the chunk is skipped.  run_summary catches every Exception
\* itself, so the except clause of lines 126-127 has nothing to catch.
Collect ==
    /\ pc = "returned"
    /\ IF retval # <<>>
       THEN /\ all_summaries' = WithSummary(all_summaries, retval[1])
            /\ origin' = Append(origin, i)
       ELSE UNCHANGED <<all_summaries, origin>>
    /\ prompt' = build_prompt(<<>>)
    /\ attempt' = 0
    /\ result' = NoResult
    /\ retval' = <<>>
    /\ calls' = 0
    /\ kinds' = <<>>
    /\ pc' = "loop"
    /\ UNCHANGED <<full_text, max_words, chunks, i, report, started, resolved>>

\* line 128: the loop is over and summarize_chunks returns
ReturnSummaries ==
    /\ pc = "loop"
    /\ i = Len(chunks)
    /\ pc' = "summarized"
    /\ UNCHANGED <<full_text, max_words, chunks, i, all_summaries, prompt, attempt,
                   result, retval, report, calls, started, resolved, kinds, origin>>

\* lines 186-187: the report is formatted and printed
FormatReport ==
    /\ pc = "summarized"
    /\ report' = format_final_output(all_summaries)
    /\ pc' = "done"
    /\ UNCHANGED <<full_text, max_words, chunks, i, all_summaries, prompt, attempt,
                   result, retval, calls, started, resolved, kinds, origin>>

Next ==
    \/ CallChunkText
    \/ EnterSummarizeChunks
    \/ CallRunSummary
    \/ AgentRaises
    \/ AgentGivesNoOutput
    \/ AgentResponds
    \/ Collect
    \/ ReturnSummaries
    \/ FormatReport

Spec == Init /\ [][Next]_vars

\* one response text of each kind: no braces, no JSON between the braces, a
\* key missing, a null field, and an object that passes
SampleObject(heading) ==
    <<LB, Member("heading", heading), Member("main_point", Str(SomePoint)),
      Member("action_items", List(SomeItems)), RB>>
SampleResponses ==
    { <<Prose>>,
      <<LB>> \o SampleObject(Str(SomeHeading)),
      <<LB, Member("heading", Str(SomeHeading)), RB>>,
      SampleObject(Null),
      SampleObject(Str(SomeHeading)) }

AgentRespondsSample == \E text \in SampleResponses : AgentRun(Output(text))

\* the run with one response text of each kind in place of all of them
NextSampled ==
    \/ CallChunkText
    \/ EnterSummarizeChunks
    \/ CallRunSummary
    \/ AgentRaises
    \/ AgentGivesNoOutput
    \/ AgentRespondsSample
    \/ Collect
    \/ ReturnSummaries
    \/ FormatReport

\* summarize_chunks keeps running, and a pending agent.run call ends: the
\* provider answers or, at the latest, the call raises.
Progress ==
    \/ EnterSummarizeChunks
    \/ CallRunSummary
    \/ AgentRaises
    \/ AgentGivesNoOutput
    \/ Collect
    \/ ReturnSummaries

FairSpec == Init /\ [][NextSampled]_vars /\ WF_vars(Progress)

NextChunk == CallChunkText

SpecChunk == InitChunk /\ [][NextChunk]_vars

\* A scripted model: documents of three sentences that make three chunks,
\* answers that are no JSON to the first two calls for chunk 2, and
\* conformant answers to every other call.
ScenarioTexts ==
    { text \in { TextOfSentences(lens) : lens \in [1..3 -> {50, DefaultMaxWords}] } :
        Len(chunk_text(text, DefaultMaxWords)) = 3 }
JsonBroken == { text \in Responses : KindOf(Output(text)) = "json_error" }
Conformant == { text \in Responses : KindOf(Output(text)) = "conformant" }
StubResponses(chunk_no, attempt_no) ==
    IF chunk_no = 2 /\ attempt_no < 2 THEN JsonBroken ELSE Conformant

InitScenario ==
    /\ pc = "chunk_text"
    /\ full_text \in ScenarioTexts
    /\ max_words = DefaultMaxWords
    /\ Locals

AgentRespondsStub == \E text \in StubResponses(i, attempt) : AgentRun(Output(text))

NextScenario ==
    \/ CallChunkText
    \/ EnterSummarizeChunks
    \/ CallRunSummary
    \/ AgentRespondsStub
    \/ Collect
    \/ ReturnSummaries
    \/ FormatReport

SpecScenario == InitScenario /\ [][NextScenario]_vars

NextMerge == FormatReport

SpecMerge == InitMerge /\ [][NextMerge]_vars

(***************************************************************************)
(* Properties of run_summary.                                              *)
(***************************************************************************)
LastKind == kinds[Len(kinds)]

\* C1: for every call of run_summary and whatever the model does, agent.run is
\* invoked at least once and at most twice, and no invocation is made or
\* pending once an attempt has produced the returned record.
C1_InvocationBudget ==
    /\ calls <= 2
    /\ Len(kinds) = calls
    /\ pc = "returned" => calls >= 1
    /\ pc = "await" =>
          /\ retval = <<>>
          /\ \A k \in 1..Len(kinds) : kinds[k] # "conformant"
    /\ retval # <<>> => pc = "returned" /\ LastKind = "conformant"

C1_Witness ==
    /\ pc = "returned"
    /\ retval # <<>>
    /\ calls = 2
    /\ kinds[1] = "no_output"

\* the failures an attempt can end in: the invocation raises, the text has no
\* "{" or no "}", the text between the braces is no JSON, a key is missing
FailureKinds == {"invocation_error", "no_braces", "json_error", "missing_key"}

\* C2: run_summary returns None, and does not raise, whenever every attempt of
\* its two fails, whatever the kinds of the failures and their mix.
C2_NoneWhenAllAttemptsFail ==
    (pc = "returned" /\ \A k \in 1..Len(kinds) : kinds[k] \in FailureKinds)
        => (retval = <<>> /\ calls = 2)

C2_Witness ==
    /\ pc = "returned"
    /\ retval = <<>>
    /\ kinds = <<"missing_key", "invocation_error">>

\* C3, as claimed: the first attempt whose response parses as JSON and has the
\* three required keys returns a record at once.
C3_RecordWhenKeysPresent ==
    (kinds # <<>> /\ LastKind \in {"invalid_field", "conformant"})
        => (pc = "returned" /\ retval # <<>>)

\* C3, amended: the first attempt whose response parses as JSON, has the three
\* required keys and passes the field types of SummaryOutput returns the
\* record built from it at once, with no further attempt and no None, even
\* if the attempt before it failed.
C3_RecordWhenValid ==
    (kinds # <<>> /\ LastKind = "conformant")
        => /\ pc = "returned"
           /\ calls = Len(kinds)
           /\ retval = << SummaryOutput(json_loads(BetweenBraces(result.output)).data) >>

C3_Witness ==
    /\ pc = "returned"
    /\ kinds = <<"json_error", "conformant">>
    /\ retval # <<>>
    /\ retval[1].heading = SomeHeading

(***************************************************************************)
(* Properties of summarize_chunks.                                         *)
(***************************************************************************)
\* C4: summarize_chunks never aborts; a returned record is appended after the
\* records of the earlier chunks, a chunk without a record leaves the result
\* as it is, and no other step touches the result, so the result is the
\* records of the chunks that succeeded, in chunk order, at most one a chunk.
C4_CollectsSuccessesInOrder ==
    [][ /\ (pc = "returned" /\ retval # <<>>) =>
              /\ all_summaries' = Append(all_summaries, retval[1])
              /\ origin' = Append(origin, i)
              /\ \A k \in 1..Len(origin) : origin[k] < i
        /\ (pc = "returned" /\ retval = <<>>) =>
              /\ all_summaries' = all_summaries
              /\ origin' = origin
        /\ pc # "returned" => (all_summaries' = all_summaries /\ origin' = origin)
        /\ Len(all_summaries') = Len(origin')
        /\ Len(all_summaries') <= i'
        /\ pc' \in {"chunked", "loop", "await", "returned", "summarized", "done"}
      ]_vars

C4_Witness ==
    /\ pc = "done"
    /\ Len(chunks) = 3
    /\ origin = <<1, 3>>
    /\ Len(all_summaries) = 2

\* C5: run_summary is called once per chunk, in chunk order, and an agent.run
\* call for a chunk is made only when every earlier chunk's run_summary has
\* returned; at most one run_summary is in progress at any time.
C5_OneChunkAtATime ==
    /\ started - resolved \in {0, 1}
    /\ started <= Len(chunks)
    /\ pc = "await" =>
          /\ started = i
          /\ resolved = i - 1
          /\ prompt = build_prompt(chunks[i])
    /\ pc \in {"returned", "loop"} => (started = i /\ resolved = i)
    /\ pc \in {"summarized", "done"} =>
          (started = Len(chunks) /\ resolved = Len(chunks))

C5_Witness ==
    /\ pc = "await"
    /\ i = 2
    /\ attempt = 1
    /\ Len(all_summaries) = 1

\* C6: when every agent.run call ends, summarize_chunks, once entered with any
\* chunk sequence, returns the summaries it has, however many calls fail.
C6_RunCompletes == (pc = "chunked") ~> (pc = "summarized")

C6_Witness ==
    /\ pc = "summarized"
    /\ Len(chunks) = 3
    /\ Len(all_summaries) = 1
    /\ origin = <<2>>

(***************************************************************************)
(* Properties of chunk_text.                                               *)
(***************************************************************************)
Sentences == sent_tokenize(full_text)
WordCount(str) == Len(word_tokenize(str))
Oversized(sentence) == WordCount(sentence) > max_words

\* C7: the chunks, one after the other, are the text: no sentence or word is
\* dropped, duplicated or reordered.
C7_ChunkingLossless ==
    pc = "chunked" =>
        /\ Flatten(chunks) = full_text
        /\ Flatten([c \in 1..Len(chunks) |-> sent_tokenize(chunks[c])]) = Sentences

C7_Witness ==
    /\ pc = "chunked"
    /\ Len(chunks) = 3
    /\ Len(sent_tokenize(chunks[1])) = 2
    /\ Len(full_text) = 6

C9_OversizedSentenceAlone ==
    pc = "chunked" =>
        \A j \in 1..Len(Sentences) :
            Oversized(Sentences[j]) =>
                /\ Cardinality({ c \in 1..Len(chunks) : chunks[c] = Sentences[j] }) = 1
                /\ \A c \in 1..Len(chunks) :
                      (\E k \in 1..Len(chunks[c]) :
                          \E n \in 1..Len(Sentences[j]) : chunks[c][k] = Sentences[j][n])
                      => chunks[c] = Sentences[j]

C9_Witness ==
    /\ pc = "chunked"
    /\ max_words = 1
    /\ Len(Sentences) = 4
    /\ Oversized(Sentences[2])
    /\ Oversized(Sentences[3])
    /\ ~Oversized(Sentences[1])
    /\ ~Oversized(Sentences[4])

(***************************************************************************)
(* Properties of format_final_output.                                      *)
(***************************************************************************)
\* C10: for no summaries format_final_output returns the fixed message, so a
\* run in which every chunk fails ends with that message as its report.
C10_NoSummariesMessage ==
    (pc = "done" /\ origin = <<>>) =>
        /\ all_summaries = <<>>
        /\ report = << Line("no_valid_summaries", 0, <<>>) >>

C10_Witness ==
    /\ pc = "done"
    /\ Len(chunks) = 2
    /\ started = 2
    /\ report = NoSummariesReport

\* the action items of all summaries, in encounter order, and the entries of
\* the consolidated section of the report
AllItems == Flatten([n \in 1..Len(all_summaries) |-> all_summaries[n].action_items])
Entries == SelectSeq(report, LAMBDA line : line.kind = "entry")
FirstWithKey(key) ==
    CHOOSE k \in 1..Len(AllItems) :
        /\ Normalize(AllItems[k]) = key
        /\ \A x \in 1..(k - 1) : Normalize(AllItems[x]) # key

\* C11: the consolidated section has exactly one entry for each normalized key
\* (lowercased, characters other than word characters and spaces removed,
\* trimmed) among all action items, items that differ in case or punctuation
\* only share an entry, and the entry's text is the original text of the
\* first item with that key.
C11_OneEntryPerKey ==
    /\ Normalize(<<"U", "s", "e", ".">>) = <<"u", "s", "e">>
    /\ Normalize(<<" ", "g", "o", "!">>) = <<"g", "o">>
    /\ Normalize(<<"G", "o">>) = Normalize(<<" ", "g", "o", "!">>)
    /\ (pc = "done" /\ all_summaries # <<>>) =>
          LET keys == { Normalize(AllItems[k]) : k \in 1..Len(AllItems) }
          IN  /\ Len(Entries) = Cardinality(keys)
              /\ \A key \in keys :
                    /\ Cardinality({ e \in 1..Len(Entries) :
                                       Normalize(Entries[e].text) = key }) = 1
                    /\ \E e \in 1..Len(Entries) :
                          Entries[e].text = AllItems[FirstWithKey(key)]

C11_Witness ==
    /\ pc = "done"
    /\ Len(all_summaries) = 2
    /\ AllItems = << <<"U", "s", "e", ".">>, <<"G", "o">>, <<"u", "s", "e">> >>
    /\ Len(Entries) = 2
    /\ Entries[1].text = <<"U", "s", "e", ".">>

\* the positions, among all action items, of the items whose key is new
FirstSeen ==
    { k \in 1..Len(AllItems) :
        \A x \in 1..(k - 1) : Normalize(AllItems[x]) # Normalize(AllItems[k]) }
NthFirstSeen(n) ==
    CHOOSE k \in FirstSeen : Cardinality({ x \in FirstSeen : x <= k }) = n

\* C12: the entries of the consolidated section are numbered 1..m without gap
\* or repeat and come out in ascending number, which is the order in which
\* the first-seen action items were encountered (by summary, then by item).
C12_EntriesInEncounterOrder ==
    (pc = "done" /\ all_summaries # <<>>) =>
        /\ Len(Entries) = Cardinality(FirstSeen)
        /\ \A n \in 1..Len(Entries) :
              /\ Entries[n].num = n
              /\ Entries[n].text = AllItems[NthFirstSeen(n)]
        /\ \E t \in 1..Len(report) :
              /\ report[t].kind = "consolidated_title"
              /\ Len(report) = t + Len(Entries)
              /\ \A n \in 1..Len(Entries) : report[t + n] = Entries[n]

C12_Witness ==
    /\ pc = "done"
    /\ Len(all_summaries) = 2
    /\ Len(AllItems) = 3
    /\ FirstSeen = {1, 3}
    /\ Len(all_summaries[1].action_items) = 2
    /\ Entries[2].num = 2
    /\ Entries[2].text = <<"G", "o">>

(***************************************************************************)
(* The scripted run.                                                       *)
(***************************************************************************)
Sections == SelectSeq(report, LAMBDA line : line.kind = "chunk_heading")

\* C13, as claimed: with three chunks, chunks 1 and 3 answered well at once
\* and chunk 2 answered with two JSON failures and then well, the run ends
\* with three summaries and three detailed sections.
C13_ThreeSummaries ==
    pc = "done" => (Len(all_summaries) = 3 /\ Len(Sections) = 3)

\* C13, amended: in that run the two JSON failures use up the attempts of
\* chunk 2, no third call is made for it, and the run ends with the two
\* summaries of chunks 1 and 3, two detailed sections numbered 1 and 2, and
\* a consolidated list in which the duplicate items have one entry.
C13_TwoSummaries ==
    /\ Len(chunks) \in {0, 3}
    /\ calls <= 2
    /\ (i = 2 /\ kinds # <<>>) => (LastKind = "json_error" /\ retval = <<>>)
    /\ (i # 2 /\ kinds # <<>>) => (kinds = <<"conformant">> /\ retval # <<>>)
    /\ pc \in {"summarized", "done"} =>
          (origin = <<1, 3>> /\ Len(all_summaries) = 2)
    /\ pc = "done" =>
          /\ Len(Sections) = 2
          /\ \A n \in 1..2 : Sections[n] = Line("chunk_heading", n, all_summaries[n].heading)
          /\ Len(Entries) = 1
          /\ Entries[1] = Line("entry", 1, SomeItems[1])
          /\ Len(AllItems) = 4

C13_Witness ==
    /\ pc = "done"
    /\ Len(chunks) = 3
    /\ started = 3
    /\ Len(Sections) = 2
    /\ Len(Entries) = 1

(***************************************************************************)
(* Properties of the records run_summary returns.                          *)
(***************************************************************************)
\* C14: every record run_summary returns, whatever the response, has a
\* non-empty heading and a non-empty main_point.
C14_NonEmptyFields ==
    retval # <<>> =>
        /\ retval[1].heading # <<>>
        /\ retval[1].main_point # <<>>

\* the object json.loads built from the response of the attempt that returned
ParsedData == json_loads(BetweenBraces(result.output)).data
MissingOrNull(json_data) ==
    \E n \in 1..Len(RequiredKeys) :
        \/ RequiredKeys[n] \notin DOMAIN json_data
        \/ json_data[RequiredKeys[n]] = Null

\* C15: a record is returned only from an attempt whose parsed object has
\* heading, main_point and action_items present and not null, and carries
\* their values as they are; an attempt whose object lacks one of them or
\* has it null yields no record and uses up one of the two attempts.
C15_RejectsMissingOrNull ==
    /\ retval # <<>> =>
          /\ result.kind = "output"
          /\ json_loads(BetweenBraces(result.output)).ok
          /\ ~MissingOrNull(ParsedData)
          /\ retval[1].heading = ParsedData["heading"].s
          /\ retval[1].main_point = ParsedData["main_point"].s
          /\ retval[1].action_items = ParsedData["action_items"].l
    /\ ( /\ pc = "returned"
         /\ result.kind = "output"
         /\ HasBraces(result.output)
         /\ json_loads(BetweenBraces(result.output)).ok
         /\ MissingOrNull(ParsedData) )
          => (retval = <<>> /\ calls = max_retries)
    /\ \A k \in 1..Len(kinds) :
          kinds[k] \in {"missing_key", "invalid_field"} =>
              /\ k < Len(kinds) \/ retval = <<>>
              /\ k < Len(kinds) \/ pc = "await" \/ calls = max_retries
    /\ pc = "await" => (attempt = Len(kinds) /\ calls = attempt)

C15_Witness ==
    /\ pc = "returned"
    /\ kinds = <<"invalid_field", "missing_key">>
    /\ retval = <<>>
    /\ "heading" \notin DOMAIN ParsedData

\* the response texts made of one conformant object with text around it, and
\* what is around it
ConformantObjects == { obj \in Objects : KindOf(Output(obj)) = "conformant" }
Has(text, tok) == \E k \in 1..Len(text) : text[k] = tok
Wrappings(text) ==
    { w \in Wraps \X ConformantObjects \X Wraps : text = w[1] \o w[2] \o w[3] }
RecordOf(obj) == SummaryOutput(json_loads(obj).data)

\* C16, as claimed: a response that is one conformant object with any text
\* that is no JSON before or behind it yields the record of that object on
\* that attempt.
C16_ExtractsFromAnyWrapping ==
    (pc = "returned" /\ result.kind = "output") =>
        \A w \in Wrappings(result.output) : retval = << RecordOf(w[2]) >>

\* C16, amended: a response that is one conformant object with text around it
\* yields the record of that object on that attempt when the text before
\* the object has no "{" and the text behind it no "}" (prose without
\* braces, markdown fences); with a stray "{" before or "}" behind the object
\* the extracted text is more than the object and the attempt yields no
\* record.
C16_ExtractsFromBracelessWrapping ==
    (pc = "returned" /\ result.kind = "output") =>
        \A w \in Wrappings(result.output) :
            IF ~Has(w[1], LB) /\ ~Has(w[3], RB)
            THEN /\ retval = << RecordOf(w[2]) >>
                 /\ LastKind = "conformant"
            ELSE /\ retval = <<>>
                 /\ LastKind # "conformant"

C16_Witness ==
    /\ pc = "returned"
    /\ result.kind = "output"
    /\ Len(result.output) = 6
    /\ result.output[1] = Prose
    /\ Wrappings(result.output) # {}
    /\ retval # <<>>

\* the attempts of the current chunk that failed, whatever they failed on
FailedAttempts == { k \in 1..Len(kinds) : kinds[k] # "conformant" }

\* C17: what run_summary does depends on which attempts failed and not on what
\* they failed on (invocation error, no output, no braces, JSON error,
\* missing key, rejected field): every failed attempt uses up one of the
\* max_retries attempts, so runs that fail and succeed at the same attempts
\* make the same number of agent.run calls and both return a record or both
\* return None.
C17_FailureKindsAlike ==
    /\ calls = Len(kinds)
    /\ pc = "await" =>
          /\ FailedAttempts = 1..Len(kinds)
          /\ attempt = Cardinality(FailedAttempts)
          /\ attempt < max_retries
    /\ (pc = "returned" /\ Len(kinds) \notin FailedAttempts) =>
          /\ FailedAttempts = 1..(Len(kinds) - 1)
          /\ calls = Cardinality(FailedAttempts) + 1
          /\ retval # <<>>
    /\ (pc = "returned" /\ Len(kinds) \in FailedAttempts) =>
          /\ FailedAttempts = 1..max_retries
          /\ calls = max_retries
          /\ retval = <<>>

C17_Witness ==
    /\ pc = "returned"
    /\ kinds = <<"json_error", "no_output">>
    /\ calls = 2
    /\ retval = <<>>

\* where the block of the n-th summary starts in the report: behind the title,
\* a blank line and the blocks before it, each of four lines and its items
RECURSIVE BlockStart(_)
BlockStart(n) ==
    IF n = 1 THEN 3
    ELSE BlockStart(n - 1) + 4 + Len(all_summaries[n - 1].action_items)
ItemLines == SelectSeq(report, LAMBDA line : line.kind = "item")

\* C18: for summaries that are not empty, the detailed section has one block
\* for each summary, in the order of the summaries: its heading under the
\* number of the summary, its main point, and all its action items numbered
\* from 1 in their order; no summary is dropped or merged, also when its
\* action items repeat those of an earlier one.
C18_OneBlockPerSummary ==
    (pc = "done" /\ all_summaries # <<>>) =>
        /\ report[1].kind = "detailed_title"
        /\ Len(Sections) = Len(all_summaries)
        /\ Len(ItemLines) = Len(AllItems)
        /\ \A n \in 1..Len(all_summaries) :
              LET at == BlockStart(n)
                  summary == all_summaries[n]
              IN  /\ report[at] = Line("chunk_heading", n, summary.heading)
                  /\ report[at + 1] = Line("main_point", 0, summary.main_point)
                  /\ report[at + 2].kind = "action_items_label"
                  /\ \A j \in 1..Len(summary.action_items) :
                        report[at + 2 + j] = Line("item", j, summary.action_items[j])
                  /\ report[at + 3 + Len(summary.action_items)].kind = "blank"
        /\ report[BlockStart(Len(all_summaries) + 1) + 1].kind = "consolidated_title"

C18_Witness ==
    /\ pc = "done"
    /\ Len(all_summaries) = 2
    /\ all_summaries[1].action_items = << <<"U", "s", "e", ".">> >>
    /\ all_summaries[2].action_items = << <<"u", "s", "e">>, <<"U", "s", "e", ".">> >>
    /\ Len(Sections) = 2
    /\ Len(ItemLines) = 3
    /\ Len(Entries) = 1

(***************************************************************************)
(* Further properties of chunk_text.                                       *)
(***************************************************************************)
\* C19: every chunk chunk_text returns holds at least one sentence, for every
\* text and every max_words, also when the first sentence alone has more
\* than max_words words; the empty text gives no chunk.
C19_NoEmptyChunk ==
    pc = "chunked" =>
        /\ \A c \in 1..Len(chunks) : Len(sent_tokenize(chunks[c])) >= 1
        /\ full_text = <<>> => chunks = <<>>

FirstSentence(chunk) == sent_tokenize(chunk)[1]

\* C20: a chunk is closed only when the next sentence would take it over
\* max_words: for any two chunks in a row, the words of the earlier one and
\* of the first sentence of the later one are together more than max_words.
C20_GreedilyMaximal ==
    pc = "chunked" =>
        \A c \in 1..(Len(chunks) - 1) :
            /\ chunks[c + 1] # <<>>
            /\ WordCount(chunks[c]) + WordCount(FirstSentence(chunks[c + 1])) > max_words

C20_Witness ==
    /\ pc = "chunked"
    /\ max_words = 4
    /\ Len(chunks) = 2
    /\ Len(sent_tokenize(chunks[1])) = 2
    /\ WordCount(chunks[1]) = 3
    /\ WordCount(FirstSentence(chunks[2])) = 2
    /\ Len(sent_tokenize(chunks[2])) = 2
====
